---- MODULE Spec2Model ----
(***************************************************************************)
(* Device buffers (GPUImage) and device textures (GPUTexture) of           *)
(* src/src/gpu/image.cu, as a state machine over a small CUDA platform:    *)
(* pitched device allocations, hardware texture objects, and the           *)
(* reference-counted ownership of allocations (std::shared_ptr with        *)
(* gpu_deleter).                                                           *)
(***************************************************************************)
EXTENDS Integers, Sequences, FiniteSets, TLC

\* ------------------------------------------------------------------ bounds
NumBufs == 2        \* GPUImage values that may be alive at once
NumTex == 1         \* GPUTexture values that may be alive at once
MaxAllocs == 2      \* device allocations the platform grants in one run
MaxTexObjs == 1     \* hardware texture objects the platform grants in one run
MaxPad == 1         \* row padding (bytes) of the host images
PitchAlign == 2     \* the platform aligns the rows of a pitched allocation to this
MaxHeight == 2      \* rows of the images used
MaxItemSize == 2    \* bytes per element of the buffers textures are configured over

\* ------------------------------------------------------- program constants
MaxChannels == 4    \* image.cu:219  if(channels > 4)
BitsPerByte == 8    \* image.cu:225  8 * __image.itemSize()

VARIABLES
    buf,      \* buf[b]: the GPUImage value in slot b (fields of the class)
    tex,      \* tex[t]: the GPUTexture value in slot t
    alloc,    \* alloc[a]: device allocation a, the shared_ptr control block owning it,
              \* and (history) the shape and rows of the host image uploaded into it last
    hwTex,    \* hwTex[h]: state of hardware texture object h
    lastOp,   \* the operation performed last
    calls,    \* platform calls and diagnostics issued by the last operation, in order
    hostOut   \* the host image passed to the last download, as the operation left it

vars == <<buf, tex, alloc, hwTex, lastOp, calls, hostOut>>

Bufs == 1..NumBufs
Texs == 1..NumTex
Allocs == 1..MaxAllocs
Handles == 1..MaxTexObjs

Min(S) == CHOOSE x \in S : \A y \in S : x <= y

\* ------------------------------------------------------------------ shapes
Sh(h, w, d, i) == [height |-> h, width |-> w, depth |-> d, itemSize |-> i]

\* width*depth*itemSize: the byte width of a row, as passed to cudaMallocPitch
\* and cudaMemcpy2D
RowBytes(r) == r.width * r.depth * r.itemSize

\* Shapes of the host images: every height of a one-byte pixel, and the
\* tallest one with one of width, itemSize, depth changed.
HostShapes ==
    {Sh(h, 1, 1, 1) : h \in 1..MaxHeight}
        \cup {Sh(MaxHeight, 2, 1, 1), Sh(MaxHeight, 1, 1, 2), Sh(MaxHeight, 1, 5, 1)}

\* Shapes given to GPUImage(height, width, depth, itemSize): two of the
\* above and two with a zero in one dimension.
ConstructShapes ==
    {Sh(MaxHeight, 1, 1, 1), Sh(MaxHeight, 2, 1, 1),
     Sh(0, 1, 1, 1), Sh(MaxHeight, 1, 0, 1)}

\* ------------------------------------------------------------- host images
\* image_t: a view over host memory of pitch*height bytes.
PatternByte(pat, k) == IF pat = "ramp" THEN k ELSE 0

MkHost(s, pad, pat) ==
    [height |-> s.height, width |-> s.width, depth |-> s.depth,
     itemSize |-> s.itemSize, pitch |-> RowBytes(s) + pad,
     data |-> [k \in 1..((RowBytes(s) + pad) * s.height) |-> PatternByte(pat, k)]]

\* Host images with content (a ramp: every byte differs) and zeroed ones.
RampImages(shapes) == {MkHost(s, pad, "ramp") : s \in shapes, pad \in 0..MaxPad}
ZeroImages(shapes) == {MkHost(s, pad, "zero") : s \in shapes, pad \in 0..MaxPad}

UploadImages == RampImages(HostShapes)
DownloadImages == ZeroImages(HostShapes)

\* Shapes used where textures are exercised: the most channels a texture
\* takes, and one more.
TexShapes == {Sh(1, 1, 4, 1), Sh(1, 1, 5, 1)}

\* Shapes used where the channel layout is exercised: every depth from none
\* to one more than a texture takes, every item size.
ConfigShapes == {Sh(1, 1, d, i) : d \in 0..(MaxChannels + 1), i \in 1..MaxItemSize}

NoImage == [height |-> 0, width |-> 0, depth |-> 0, itemSize |-> 0,
            pitch |-> 0, data |-> <<>>]

\* The tight rows of a pitched byte array: row r holds bytes r*pitch+1 .. r*pitch+width.
Rows(data, pitch, width, height) ==
    [r \in 1..height |-> [c \in 1..width |-> data[(r - 1) * pitch + c]]]

RowsOf(H) == Rows(H.data, H.pitch, RowBytes(H), H.height)

\* ---------------------------------------------------------------- platform
\* Contents of freshly allocated device memory are unspecified.
GarbageBytes == {0, 255}

\* The pitch cudaMallocPitch chooses for rows of rb bytes: rb rounded up to
\* the platform's alignment.
AlignedPitch(rb) == ((rb + PitchAlign - 1) \div PitchAlign) * PitchAlign

\* Values an uninitialised __pitch may hold.
IndeterminatePitches == {0, 99}

\* cudaMemcpy2D(dst, dpitch, src, spitch, width, height, kind): copies
\* `width` bytes of each of `height` rows; rows start dpitch (spitch) apart.
Memcpy2D(dst, dpitch, src, spitch, width, height) ==
    [k \in 1..Len(dst) |->
        LET r == (k - 1) \div dpitch       \* the row byte k of dst lies in
            c == ((k - 1) % dpitch) + 1    \* and its place in that row
        IN IF r < height /\ c <= width THEN src[r * spitch + c] ELSE dst[k]]

\* cudaMemcpy2D rejects a null pointer and a pitch smaller than the width.
Memcpy2DOk(dstLive, dpitch, srcLive, spitch, width) ==
    dstLive /\ srcLive /\ width <= dpitch /\ width <= spitch /\ dpitch > 0

FreshAlloc == [state |-> "unused", use_count |-> 0, frees |-> 0,
               pitch |-> 0, height |-> 0, mem |-> <<>>,
               src |-> Sh(0, 0, 0, 0), rows |-> <<>>]

IsLive(al, p) == p \in Allocs /\ al[p].state = "live"

\* cudaFree(p), as gpu_deleter calls it on the pointer the shared_ptr owned:
\* the memory is gone, and so is what the platform knew of it.
gpu_deleter(al, p) ==
    [al EXCEPT ![p] = [FreshAlloc EXCEPT !.state = "freed", !.frees = al[p].frees + 1,
                                         !.use_count = al[p].use_count]]

\* SharedPtrAcquire as a bug: the copy holds the pointer without owning it.
SharedPtrAcquire_NoCount(al, p) == al

\* Copying a shared_ptr: one more owner of the control block.  A null
\* shared_ptr owns no allocation.
SharedPtrAcquire(al, p) ==
    IF p = 0 THEN al ELSE [al EXCEPT ![p].use_count = @ + 1]

\* Destroying (or overwriting) a shared_ptr: one owner fewer; the deleter runs
\* when the last owner goes.  The deleter of a null pointer frees nothing.
SharedPtrRelease(al, p) ==
    IF p = 0 THEN al
    ELSE IF al[p].use_count = 1
         THEN gpu_deleter([al EXCEPT ![p].use_count = 0], p)
         ELSE [al EXCEPT ![p].use_count = @ - 1]

\* an entry of `calls`: a platform call and whether it succeeded
Call(fn, ok) == [fn |-> fn, ok |-> ok]

\* a diagnostic written to std::cerr
Cerr(msg) == [fn |-> msg, ok |-> FALSE]

ReleaseCalls(al, p) ==
    IF p = 0 THEN <<>>
    ELSE IF al[p].use_count = 1
         THEN <<Call("release", TRUE), Call("cudaFree", TRUE)>>
         ELSE <<Call("release", TRUE)>>

\* ------------------------------------------------------------------ GPUImage
\* GPUImage::GPUImage()
EmptyBuf == [alive |-> TRUE, height |-> 0, width |-> 0, depth |-> 0,
             itemSize |-> 0, pitch |-> 0, ptr |-> 0]

\* a slot holding no GPUImage
DeadBuf == [EmptyBuf EXCEPT !.alive = FALSE]

\* compareShape as a bug: the depth is left out of the comparison.
compareShape_NoDepth(r, img) ==
    /\ r.height = img.height
    /\ r.width = img.width
    /\ r.itemSize = img.itemSize

\* GPUImage::compareShape
compareShape(r, img) ==
    /\ r.height = img.height
    /\ r.width = img.width
    /\ r.depth = img.depth
    /\ r.itemSize = img.itemSize

\* GPUImage::allocate on the fields r: the set of outcomes
\* [rec, alloc, calls] the platform can produce.
AllocateOutcomes(r, al) ==
    LET rb == RowBytes(r)
        free == {a \in Allocs : al[a].state = "unused"}
        call(ok) == Call("cudaMallocPitch", ok)
        old == SharedPtrRelease(al, r.ptr)
        rejected ==
            {[rec |-> [r EXCEPT !.ptr = 0], alloc |-> old,
              calls |-> <<call(FALSE), Cerr("GPUImage device memory allocation")>>]}
        \* a request of zero bytes yields no device memory
        nothing ==
            {[rec |-> [r EXCEPT !.ptr = 0, !.pitch = p], alloc |-> old,
              calls |-> <<call(TRUE)>>] : p \in {r.pitch, 0}}
        accepted ==
            IF free = {} THEN {}
            ELSE LET a == Min(free) IN
                 {[rec |-> [r EXCEPT !.ptr = a, !.pitch = AlignedPitch(rb)],
                   alloc |-> [old EXCEPT ![a] =
                       [state |-> "live", use_count |-> 1, frees |-> 0,
                        pitch |-> AlignedPitch(rb), height |-> r.height,
                        mem |-> [k \in 1..(AlignedPitch(rb) * r.height) |-> g],
                        src |-> Sh(0, 0, 0, 0), rows |-> <<>>]],
                   calls |-> <<call(TRUE)>>] : g \in GarbageBytes}
    IN IF rb = 0 \/ r.height = 0 THEN nothing \cup rejected
       ELSE accepted \cup rejected

\* uploadNeedsAllocate as a bug: every upload adopts the shape and allocates.
uploadNeedsAllocate_Always(r) == TRUE

\* downloadUnallocated as a bug: the shape is tested, not the pointer.
downloadUnallocated_ByShape(r) == r.height = 0

\* upload: "check if device memory is allocated", if(!__ptr_dev)
uploadNeedsAllocate(r) == r.ptr = 0

\* download: if(!__ptr_dev)
downloadUnallocated(r) == r.ptr = 0

\* upload's cudaMemcpy2D(__ptr_dev.get(), __pitch, img.data, img.pitch,
\*                       __width*__depth*__itemSize, __height, HostToDevice)
UploadCopy(r, H, mem) ==
    Memcpy2D(mem, r.pitch, H.data, H.pitch, RowBytes(r), r.height)

\* DownloadCopy as a bug: the host rows are taken to be tight.
DownloadCopy_TightHost(r, H, mem) ==
    Memcpy2D(H.data, RowBytes(r), mem, r.pitch, RowBytes(r), r.height)

\* download's cudaMemcpy2D(img.data, img.pitch, __ptr_dev.get(), __pitch,
\*                         __width*__depth*__itemSize, __height, DeviceToHost)
DownloadCopy(r, H, mem) ==
    Memcpy2D(H.data, H.pitch, mem, r.pitch, RowBytes(r), r.height)

FreeBufSlot == Min({b \in Bufs : ~buf[b].alive})

NoTransfer(op) ==
    /\ lastOp' = op
    /\ hostOut' = NoImage

\* GPUImage::GPUImage()
BufConstructEmpty ==
    /\ \E b \in Bufs : ~buf[b].alive
    /\ buf' = [buf EXCEPT ![FreeBufSlot] = EmptyBuf]
    /\ calls' = <<>>
    /\ NoTransfer("construct0")
    /\ UNCHANGED <<tex, alloc, hwTex>>

\* GPUImage::GPUImage(height, width, depth, itemSize): __pitch is not
\* initialised before allocate() runs.
BufConstruct(s) ==
    /\ \E b \in Bufs : ~buf[b].alive
    /\ \E o \in UNION {AllocateOutcomes(
                         [alive |-> TRUE, height |-> s.height, width |-> s.width,
                          depth |-> s.depth, itemSize |-> s.itemSize,
                          pitch |-> p0, ptr |-> 0], alloc) :
                     p0 \in IndeterminatePitches} :
          /\ buf' = [buf EXCEPT ![FreeBufSlot] = o.rec]
          /\ alloc' = o.alloc
          /\ calls' = o.calls
    /\ NoTransfer("construct4")
    /\ UNCHANGED <<tex, hwTex>>

\* The implicit copy constructor of GPUImage: the fields and the shared_ptr
\* are copied.
BufCopy(b) ==
    /\ buf[b].alive
    /\ \E c \in Bufs : ~buf[c].alive
    /\ buf' = [buf EXCEPT ![FreeBufSlot] = buf[b]]
    /\ alloc' = SharedPtrAcquire(alloc, buf[b].ptr)
    /\ calls' = <<>>
    /\ NoTransfer("copy")
    /\ UNCHANGED <<tex, hwTex>>

\* GPUImage::~GPUImage
BufDestroy(b) ==
    /\ buf[b].alive
    /\ buf' = [buf EXCEPT ![b] = DeadBuf]
    /\ alloc' = SharedPtrRelease(alloc, buf[b].ptr)
    /\ calls' = ReleaseCalls(alloc, buf[b].ptr)
    /\ NoTransfer("destroy")
    /\ UNCHANGED <<tex, hwTex>>

\* GPUImage::upload
upload(b, H) ==
    /\ buf[b].alive
    /\ LET r0 == buf[b]
           adopted == [r0 EXCEPT !.width = H.width, !.height = H.height,
                                 !.depth = H.depth, !.itemSize = H.itemSize]
           outs == IF uploadNeedsAllocate(r0) THEN AllocateOutcomes(adopted, alloc)
                   ELSE {[rec |-> r0, alloc |-> alloc, calls |-> <<>>]}
       IN \E o \in outs :
            LET r == o.rec
                rb == RowBytes(r)
                ok == Memcpy2DOk(IsLive(o.alloc, r.ptr), r.pitch, TRUE, H.pitch, rb)
                copy == Call("cudaMemcpy2D HostToDevice", ok)
            IN /\ buf' = [buf EXCEPT ![b] = r]
               /\ IF compareShape(r, H)
                  THEN /\ alloc' = IF ok
                                   THEN [o.alloc EXCEPT
                                            ![r.ptr].mem = UploadCopy(r, H, @),
                                            ![r.ptr].src = Sh(H.height, H.width,
                                                              H.depth, H.itemSize),
                                            ![r.ptr].rows = RowsOf(H)]
                                   ELSE o.alloc
                       /\ calls' = o.calls \o <<copy>>
                                     \o (IF ok THEN <<>> ELSE <<Cerr("checkError")>>)
                  ELSE /\ alloc' = o.alloc
                       /\ calls' = o.calls
                                     \o <<Cerr("GPUImage::upload(): shapes do not match")>>
    /\ lastOp' = "upload"
    /\ hostOut' = NoImage
    /\ UNCHANGED <<tex, hwTex>>

\* GPUImage::download
download(b, H) ==
    /\ buf[b].alive
    /\ LET r == buf[b]
           rb == RowBytes(r)
           ok == Memcpy2DOk(TRUE, H.pitch, IsLive(alloc, r.ptr), r.pitch, rb)
           copy == Call("cudaMemcpy2D DeviceToHost", ok)
       IN IF downloadUnallocated(r)
          THEN /\ calls' = <<Cerr("GPUImage::download(): unallocated image")>>
               /\ hostOut' = H
          ELSE IF compareShape(r, H)
          THEN /\ calls' = <<copy>> \o (IF ok THEN <<>> ELSE <<Cerr("checkError")>>)
               /\ hostOut' = IF ok
                             THEN [H EXCEPT !.data = DownloadCopy(r, H, alloc[r.ptr].mem)]
                             ELSE H
          ELSE /\ calls' = <<Cerr("GPUImage::download(): shapes do not match")>>
               /\ hostOut' = H
    /\ lastOp' = "download"
    /\ UNCHANGED <<buf, tex, alloc, hwTex>>

\* ---------------------------------------------------------------- GPUTexture
\* the sampling configuration values passed through to the platform
Formats == {"float", "unsigned"}
AddressModes == {"clamp", "wrap"}
FilterModes == {"point", "linear"}
ReadModes == {"elementType"}

\* a slot holding no GPUTexture
DeadTex == [alive |-> FALSE, image |-> DeadBuf, validTexture |-> FALSE,
            texture |-> 0, created |-> FALSE]

\* Values an uninitialised cudaTextureObject_t __texture may hold.  The field
\* texture = 0 stands for a __texture that was never assigned; its value is
\* drawn from this set where it is read.
IndeterminateHandles == 0..MaxTexObjs

\* bit width of each channel (configure, "bit width of each channel")
ChannelWidths(channels, itemSize) ==
    LET bitWidth == BitsPerByte * itemSize
    IN <<bitWidth,
         IF channels >= 2 THEN bitWidth ELSE 0,
         IF channels >= 3 THEN bitWidth ELSE 0,
         IF channels = 4 THEN bitWidth ELSE 0>>

\* GPUTexture::configure on the texture x: the set of outcomes
\* [rec, hwTex, calls].  `created` records whether cudaCreateTextureObject
\* made a hardware object for this texture.
ConfigureOutcomes(x, format, addressMode, filterMode, readMode, hw, al) ==
    LET channels == x.image.depth
        free == {h \in Handles : hw[h] = "unused"}
        \* cudaCreateChannelDesc(w1, w2, w3, w4, format)
        desc == [fn |-> "cudaCreateChannelDesc", ok |-> TRUE,
                 widths |-> ChannelWidths(channels, x.image.itemSize)]
        create(ok) == Call("cudaCreateTextureObject", ok)
        accepted ==
            IF free = {} \/ ~IsLive(al, x.image.ptr) THEN {}
            ELSE {[rec |-> [x EXCEPT !.validTexture = TRUE, !.texture = Min(free),
                                     !.created = TRUE],
                   hwTex |-> [hw EXCEPT ![Min(free)] = "live"],
                   calls |-> <<desc, create(TRUE)>>]}
        rejected ==
            {[rec |-> [x EXCEPT !.validTexture = FALSE], hwTex |-> hw,
              calls |-> <<desc, create(FALSE),
                          Cerr("GPUTexture::configure(): texture creation")>>]}
    IN IF channels > MaxChannels
       THEN {[rec |-> x, hwTex |-> hw,
              calls |-> <<Cerr("GPUTexture::configure(): image channels greater than 4")>>]}
       ELSE accepted \cup rejected

FreeTexSlot == Min({t \in Texs : ~tex[t].alive})

\* GPUTexture::GPUTexture(): __texture is not initialised.
TexConstructEmpty ==
    /\ \E t \in Texs : ~tex[t].alive
    /\ tex' = [tex EXCEPT ![FreeTexSlot] =
                  [alive |-> TRUE, image |-> EmptyBuf, validTexture |-> FALSE,
                   texture |-> 0, created |-> FALSE]]
    /\ calls' = <<>>
    /\ NoTransfer("texConstruct0")
    /\ UNCHANGED <<buf, alloc, hwTex>>

\* The body of GPUTexture::GPUTexture(img, format, addressMode, filterMode,
\* readMode): neither __validTexture nor __texture is initialised before
\* configure() runs; __image = img makes the texture one more owner of
\* img's allocation (the by-value parameter is a copy that is destroyed on
\* return).
TexConstructBody(op, b, format, addressMode, filterMode, readMode) ==
    /\ buf[b].alive
    /\ \E t \in Texs : ~tex[t].alive
    /\ \E v \in BOOLEAN :
       LET held == SharedPtrAcquire(alloc, buf[b].ptr)
           x0 == [alive |-> TRUE, image |-> buf[b], validTexture |-> v,
                  texture |-> 0, created |-> FALSE]
       IN \E o \in ConfigureOutcomes(x0, format, addressMode, filterMode,
                                     readMode, hwTex, held) :
            /\ tex' = [tex EXCEPT ![FreeTexSlot] = o.rec]
            /\ hwTex' = o.hwTex
            /\ alloc' = held
            /\ calls' = o.calls
    /\ NoTransfer(op)
    /\ UNCHANGED buf

\* GPUTexture::GPUTexture(img, format, addressMode, filterMode, readMode)
TexConstruct5(b, format, addressMode, filterMode, readMode) ==
    TexConstructBody("texConstruct5", b, format, addressMode, filterMode, readMode)

\* GPUTexture::GPUTexture(img, format): delegates with the default sampling
\* configuration
TexConstruct2(b, format) ==
    TexConstructBody("texConstruct2", b, format, "clamp", "point", "elementType")

\* GPUTexture::~GPUTexture, then the destructor of the member __image
TexDestroy(t) ==
    /\ tex[t].alive
    /\ \E g \in (IF tex[t].texture = 0 THEN IndeterminateHandles ELSE {tex[t].texture}) :
       LET x == tex[t]
           ok == g \in Handles /\ hwTex[g] = "live"
           destroy == IF x.validTexture
                      THEN <<Call("cudaDestroyTextureObject", ok)>>
                               \o (IF ok THEN <<>> ELSE <<Cerr("checkError")>>)
                      ELSE <<>>
       IN /\ hwTex' = IF x.validTexture /\ ok
                      THEN [hwTex EXCEPT ![g] = "destroyed"]
                      ELSE hwTex
          /\ alloc' = SharedPtrRelease(alloc, x.image.ptr)
          /\ calls' = destroy \o ReleaseCalls(alloc, x.image.ptr)
    /\ tex' = [tex EXCEPT ![t] = DeadTex]
    /\ NoTransfer("texDestroy")
    /\ UNCHANGED buf

\* GPUTexture::getImage: a copy of the held GPUImage
getImage(t) ==
    /\ tex[t].alive
    /\ \E c \in Bufs : ~buf[c].alive
    /\ buf' = [buf EXCEPT ![FreeBufSlot] = tex[t].image]
    /\ alloc' = SharedPtrAcquire(alloc, tex[t].image.ptr)
    /\ calls' = <<>>
    /\ NoTransfer("getImage")
    /\ UNCHANGED <<tex, hwTex>>

\* ------------------------------------------------------------ specification
Init ==
    /\ buf = [b \in Bufs |-> DeadBuf]
    /\ tex = [t \in Texs |-> DeadTex]
    /\ alloc = [a \in Allocs |-> FreshAlloc]
    /\ hwTex = [h \in Handles |-> "unused"]
    /\ lastOp = "none"
    /\ calls = <<>>
    /\ hostOut = NoImage

\* Every operation; buffers of the texture shapes, tight host images.
Next ==
    \/ BufConstructEmpty
    \/ \E s \in TexShapes : BufConstruct(s)
    \/ \E b \in Bufs : BufCopy(b)
    \/ \E b \in Bufs : BufDestroy(b)
    \/ \E b \in Bufs, s \in TexShapes : upload(b, MkHost(s, 0, "ramp"))
    \/ \E b \in Bufs, s \in TexShapes : download(b, MkHost(s, 0, "zero"))
    \/ TexConstructEmpty
    \/ \E b \in Bufs, f \in Formats : TexConstruct2(b, f)
    \/ \E b \in Bufs, f \in Formats, am \in AddressModes, fm \in FilterModes,
          rm \in ReadModes : TexConstruct5(b, f, am, fm, rm)
    \/ \E t \in Texs : TexDestroy(t)
    \/ \E t \in Texs : getImage(t)

Spec == Init /\ [][Next]_vars

\* The buffer operations alone, with every shape and every host image.
NextTransfer ==
    \/ BufConstructEmpty
    \/ \E s \in ConstructShapes : BufConstruct(s)
    \/ \E b \in Bufs : BufCopy(b)
    \/ \E b \in Bufs : BufDestroy(b)
    \/ \E b \in Bufs, H \in UploadImages : upload(b, H)
    \/ \E b \in Bufs, H \in DownloadImages : download(b, H)

SpecTransfer == Init /\ [][NextTransfer]_vars

\* Texture configuration over buffers of every depth and item size, one
\* buffer at a time.
NoBuffer == \A c \in Bufs : ~buf[c].alive

NextConfigure ==
    \/ NoBuffer /\ BufConstructEmpty
    \/ NoBuffer /\ \E s \in ConfigShapes : BufConstruct(s)
    \/ \E b \in Bufs : BufDestroy(b)
    \/ \E b \in Bufs, f \in Formats : TexConstruct2(b, f)
    \/ \E b \in Bufs, f \in Formats, am \in AddressModes, fm \in FilterModes,
          rm \in ReadModes : TexConstruct5(b, f, am, fm, rm)
    \/ \E t \in Texs : TexDestroy(t)

SpecConfigure == Init /\ [][NextConfigure]_vars

\* ------------------------------------------------------------------ claims
HasCall(cs, fn) == \E i \in 1..Len(cs) : cs[i].fn = fn
HasFailedCall(cs, fn) == \E i \in 1..Len(cs) : cs[i].fn = fn /\ ~cs[i].ok

\* some field of the shape of r differs from the host image's
ShapeDiffers(r, H) ==
    \/ r.height # H.height
    \/ r.width # H.width
    \/ r.depth # H.depth
    \/ r.itemSize # H.itemSize

\* the buffers and textures holding device pointer a
BufOwners(a) == {b \in Bufs : buf[b].alive /\ buf[b].ptr = a}
TexOwners(a) == {t \in Texs : tex[t].alive /\ tex[t].image.ptr = a}
HasOwner(a) == BufOwners(a) # {} \/ TexOwners(a) # {}

\* C1: an allocation is released through the deallocation call exactly once,
\* and exactly when its last owner (a buffer copy, or a texture holding the
\* buffer) is gone: while an owner is alive it is live and was never freed;
\* once granted and without an owner it has been freed, once.
C1_ReleasedOnceWithLastOwner ==
    \A a \in Allocs :
        /\ alloc[a].frees <= 1
        /\ HasOwner(a) => alloc[a].state = "live" /\ alloc[a].frees = 0
        /\ ~HasOwner(a) /\ alloc[a].state # "unused" =>
               alloc[a].state = "freed" /\ alloc[a].frees = 1

\* a texture was the last owner of an allocation two buffers had shared
C1_Witness ==
    /\ lastOp = "texDestroy"
    /\ HasCall(calls, "cudaFree")
    /\ \E a \in Allocs : alloc[a].state = "freed" /\ alloc[a].frees = 1
    /\ \A b \in Bufs : ~buf[b].alive

\* C2: downloading into a zeroed host image of the buffer's shape, whatever
\* its pitch, leaves in each of its rows the width*depth*itemSize bytes of the
\* row of the host image uploaded last into the allocation (alloc[a].rows,
\* taken from that image with its own pitch).
C2_RoundTrip ==
    [][lastOp' = "download" =>
        \A b \in Bufs, T \in DownloadImages :
            (/\ buf[b].alive
             /\ buf[b].ptr # 0
             /\ alloc[buf[b].ptr].rows # <<>>
             /\ ~ShapeDiffers(buf[b], T)
             /\ download(b, T))
            => /\ RowsOf(hostOut') = alloc[buf[b].ptr].rows
               /\ hostOut'.pitch = T.pitch]_vars

\* a two-row ramp uploaded from a padded host image came back into a tight one
C2_Witness ==
    /\ lastOp = "download"
    /\ calls = <<Call("cudaMemcpy2D DeviceToHost", TRUE)>>
    /\ hostOut.pitch = 1
    /\ hostOut.data = <<1, 3>>
    /\ \E a \in Allocs : alloc[a].state = "live" /\ alloc[a].pitch = 2
                           /\ alloc[a].rows = <<<<1>>, <<3>>>>

\* C3: upload or download on an allocated buffer with a host image of another
\* shape issues no copy and changes nothing: not the buffers (shape, pitch,
\* pointer), not the device memory, not (download) the host image.  Stated
\* as: a step that changes any of these, or issues a copy, is no upload
\* (download) with an image whose shape differs from the buffer's.
C3_MismatchCopiesNothing ==
    [][/\ (/\ lastOp' = "upload"
           /\ ~(UNCHANGED <<buf, alloc>>
                  /\ ~HasCall(calls', "cudaMemcpy2D HostToDevice"))) =>
            \A b \in Bufs, H \in UploadImages :
                (buf[b].alive /\ buf[b].ptr # 0 /\ ShapeDiffers(buf[b], H))
                    => ~upload(b, H)
       /\ lastOp' = "download" =>
            \A b \in Bufs, T \in DownloadImages :
                (/\ buf[b].alive /\ buf[b].ptr # 0
                 /\ ShapeDiffers(buf[b], T)
                 /\ ~(UNCHANGED <<buf, alloc>>
                        /\ hostOut' = T
                        /\ ~HasCall(calls', "cudaMemcpy2D DeviceToHost")))
                    => ~download(b, T)]_vars

\* an upload was refused for its shape by a buffer holding uploaded content
C3_Witness ==
    /\ lastOp = "upload"
    /\ calls = <<Cerr("GPUImage::upload(): shapes do not match")>>
    /\ \E b \in Bufs : /\ buf[b].alive /\ buf[b].ptr # 0
                       /\ alloc[buf[b].ptr].rows # <<>>

\* C4: an upload into an unallocated buffer that the platform grants memory
\* adopts the shape of the uploaded image (alloc[a].src), allocates and copies
\* the image's rows; an upload into an allocated buffer never allocates; and
\* no upload or download changes the shape, pitch or pointer of a buffer that
\* is allocated.
C4_ShapeFixedOnceAllocated ==
    [][/\ lastOp' = "upload" =>
            \A b \in Bufs :
                /\ (buf[b].alive /\ buf[b].ptr = 0 /\ buf'[b].ptr # 0) =>
                      LET a == buf'[b].ptr
                          H == alloc'[a].src
                      IN /\ alloc[a].state = "unused"
                         /\ alloc'[a].state = "live"
                         /\ alloc'[a].rows # <<>>
                         /\ H.height > 0
                         /\ ~ShapeDiffers(buf'[b], H)
                         /\ buf'[b].pitch >= RowBytes(H)
                         /\ Rows(alloc'[a].mem, buf'[b].pitch, RowBytes(H), H.height)
                                = alloc'[a].rows
                /\ (buf[b].alive /\ buf[b].ptr # 0 /\ HasCall(calls', "cudaMallocPitch")) =>
                      \A H \in UploadImages : ~upload(b, H)
       /\ lastOp' \in {"upload", "download"} =>
            \A b \in Bufs : (buf[b].alive /\ buf[b].ptr # 0) => buf'[b] = buf[b]]_vars

\* a first upload allocated and copied
C4_Witness ==
    /\ lastOp = "upload"
    /\ calls = <<Call("cudaMallocPitch", TRUE), Call("cudaMemcpy2D HostToDevice", TRUE)>>
    /\ \E b \in Bufs : /\ buf[b].alive /\ buf[b].ptr # 0 /\ buf[b].height = MaxHeight
                       /\ alloc[buf[b].ptr].rows # <<>>

\* C5: download on a buffer without device memory reports the unallocated
\* image and nothing else: no copy is issued, the buffers, the device memory
\* and the host image are unchanged, whatever the host image's shape.
C5_DownloadUnallocated ==
    [][lastOp' = "download" =>
        \A b \in Bufs, T \in DownloadImages :
            (buf[b].alive /\ buf[b].ptr = 0 /\ download(b, T)) =>
                /\ calls' = <<Cerr("GPUImage::download(): unallocated image")>>
                /\ hostOut' = T
                /\ UNCHANGED <<buf, alloc>>]_vars

\* a download was refused by an unallocated buffer whose shape fields equal
\* the host image's
C5_Witness ==
    /\ lastOp = "download"
    /\ calls = <<Cerr("GPUImage::download(): unallocated image")>>
    /\ \E b \in Bufs : /\ buf[b].alive /\ buf[b].ptr = 0
                       /\ ~ShapeDiffers(buf[b], hostOut)
                       /\ hostOut.height > 0

\* C6: a texture over a buffer of depth <= 4 for which the platform created
\* the hardware object is valid and holds that object; a texture over a
\* buffer of depth > 4 is invalid and no hardware object was created for it.
C6_TextureValidity ==
    \A t \in Texs : tex[t].alive =>
        /\ (tex[t].image.depth <= MaxChannels /\ tex[t].created) =>
              /\ tex[t].validTexture
              /\ tex[t].texture \in Handles
              /\ hwTex[tex[t].texture] = "live"
        /\ tex[t].image.depth > MaxChannels =>
              /\ ~tex[t].validTexture
              /\ ~tex[t].created

\* C7: the shape fields of a buffer are all zero with no allocation, or all
\* positive with an allocation.
C7_AllZeroOrAllPositive ==
    \A b \in Bufs : buf[b].alive =>
        \/ /\ buf[b].height = 0 /\ buf[b].width = 0
           /\ buf[b].depth = 0 /\ buf[b].itemSize = 0
           /\ buf[b].ptr = 0
        \/ /\ buf[b].height > 0 /\ buf[b].width > 0
           /\ buf[b].depth > 0 /\ buf[b].itemSize > 0
           /\ buf[b].ptr # 0

\* C8: the pitch of a buffer is at least width*depth*itemSize.
C8_PitchCoversRow ==
    \A b \in Bufs : buf[b].alive => buf[b].pitch >= RowBytes(buf[b])

\* C9: when the platform rejects the allocation of a first upload, the buffer
\* keeps its prior state and no host-to-device copy is attempted; a buffer
\* whose construction the platform rejected is unallocated.
C9_RejectedAllocationIsNoOp ==
    [][/\ lastOp' = "upload" =>
            \A b \in Bufs, H \in UploadImages :
                (/\ buf[b].alive /\ buf[b].ptr = 0
                 /\ upload(b, H)
                 /\ HasFailedCall(calls', "cudaMallocPitch"))
                => /\ buf'[b] = buf[b]
                   /\ ~HasCall(calls', "cudaMemcpy2D HostToDevice")
       /\ (lastOp' = "construct4" /\ HasFailedCall(calls', "cudaMallocPitch")) =>
            \A b \in Bufs : (~buf[b].alive /\ buf'[b].alive) => buf'[b].ptr = 0]_vars

\* C10: destroying a texture calls cudaDestroyTextureObject exactly when a
\* hardware object was created for it, and before the reference to the held
\* buffer is dropped.
C10_TeardownOnlyIfCreated ==
    [][lastOp' = "texDestroy" =>
        \A t \in Texs :
            (tex[t].alive /\ ~tex'[t].alive) =>
                /\ HasCall(calls', "cudaDestroyTextureObject") <=> tex[t].created
                /\ \A i, j \in 1..Len(calls') :
                      (calls'[i].fn = "cudaDestroyTextureObject"
                          /\ calls'[j].fn = "release") => i < j]_vars

\* the widths the claim gives a buffer of depth d and element size itemSize:
\* 8*itemSize for channel i <= d, 0 for channel i > d
ClaimedWidths(d, itemSize) ==
    [i \in 1..MaxChannels |-> IF i <= d THEN BitsPerByte * itemSize ELSE 0]

\* C11: for every buffer depth d in 0..4 and every itemSize, the four channel
\* bit widths that texture configuration passes to the channel-format
\* descriptor are 8*itemSize for channel i when i <= d and 0 for channel i
\* when i > d (channels numbered 1..4).
C11_ChannelWidths ==
    [][\A b \in Bufs :
          (/\ lastOp' \in {"texConstruct2", "texConstruct5"}
           /\ buf[b].alive
           /\ buf[b].depth \in 0..MaxChannels
           /\ \E f \in Formats :
                 \/ TexConstruct2(b, f)
                 \/ \E am \in AddressModes, fm \in FilterModes, rm \in ReadModes :
                       TexConstruct5(b, f, am, fm, rm)) =>
              \E i \in 1..Len(calls') :
                 /\ calls'[i].fn = "cudaCreateChannelDesc"
                 /\ calls'[i].widths = ClaimedWidths(buf[b].depth, buf[b].itemSize)]_vars

====
